---- MODULE Spec2Model ----
(***************************************************************************)
(* Model of the Google chatbot backend (src/main.py): the OAuth callback   *)
(* and the in-memory token store, the session check, the chat relay's      *)
(* keyword intent detection and the Gmail accessor.                        *)
(***************************************************************************)
EXTENDS Naturals, Sequences, FiniteSets, TLC

VARIABLES
    user_tokens,   \* the module-level dict user_tokens (key -> token dict)
    returned,      \* history: the user_id strings carried by success redirects
    last,          \* the request handled last: its inputs and its response
    message,       \* the chat message text of the chat request (chat runs)
    pc,            \* per in-flight callback request: idle / userinfo / done
    req            \* per in-flight callback request: its local variables

vars == <<user_tokens, returned, last, message, pc, req>>

----------------------------------------------------------------------------
(* Python values.  A value that may be None is tagged, so that the object  *)
(* None and the string "None" stay different, as they are in Python.       *)

None == [t |-> "none", v |-> ""]

Str(s) == [t |-> "str", v |-> s]

\* str(x), as the f-strings of the redirect URLs apply it
PyStr(x) == IF x.t = "none" THEN "None" ELSE x.v

\* the empty dict
EmptyDict == [k \in {} |-> ""]

\* d.get(k): the value under k, None when the key is missing
DictGet(d, k) == IF k \in DOMAIN d THEN Str(d[k]) ELSE None

\* a JSON body that parsed to a dict, one that parsed to null, and a request
\* (or a .json() call) that raised
JDict(d) == [kind |-> "dict", d |-> d]
JNull == [kind |-> "null", d |-> EmptyDict]
Failed == [kind |-> "raise", d |-> EmptyDict]

\* A text built by an f-string is the sequence of its pieces, in order.

\* an exception raised: its class, the status_code of an HTTPException (0 for the
\* other classes) and its message text (the detail of an HTTPException)
Raise(exc, status, msg) == [kind |-> "raise", exc |-> exc, status |-> status, msg |-> msg]

----------------------------------------------------------------------------
(* Inputs: the answers of Google's token and userinfo endpoints.           *)

TokenResponses ==
    { JDict([access_token |-> "a1", refresh_token |-> "r1"]),
      JDict([access_token |-> "a2"]),
      JDict([error |-> "invalid_grant"]),
      JNull,
      Failed }

UserinfoResponses ==
    { JDict([id |-> "u1"]),
      JDict([id |-> "u2"]),
      JDict([error |-> "unauthorized"]),
      JNull,
      Failed }

\* the user_id query strings a client may send
QueryIds == {"u1", "u2", "None"}

FrontendUrl == "https://v0-google-integration-chatbot.vercel.app"

NoRequest == [op |-> "none"]

----------------------------------------------------------------------------
(* GET /auth/google/callback                                               *)

\* requests.post, .json() and the access_token check
CallbackExchange(tok) ==
    IF tok.kind = "raise" THEN Raise("RequestException", 0, <<"request failed">>)
    ELSE IF tok.kind = "null" THEN Raise("TypeError", 0, <<"argument of type 'NoneType' is not iterable">>)
    ELSE IF "access_token" \notin DOMAIN tok.d
         THEN Raise("HTTPException", 400, <<"Failed to get access token">>)
    ELSE [kind |-> "ok"]

\* requests.get of the userinfo, .json() and user_info.get("id")
CallbackUserinfo(info) ==
    IF info.kind = "raise" THEN Raise("RequestException", 0, <<"request failed">>)
    ELSE IF info.kind = "null" THEN Raise("AttributeError", 0, <<"'NoneType' object has no attribute 'get'">>)
    ELSE [kind |-> "ok", user_id |-> DictGet(info.d, "id")]

\* a plausible slip: the new token dict is merged into the stored one
StoreTokensMerged(store, user_id, tokens) ==
    [k \in DOMAIN store \cup {user_id} |->
        IF k = user_id
        THEN IF user_id \in DOMAIN store
             THEN [f \in DOMAIN store[user_id] \cup DOMAIN tokens |->
                      IF f \in DOMAIN tokens THEN tokens[f] ELSE store[user_id][f]]
             ELSE tokens
        ELSE store[k]]

\* user_tokens[user_id] = tokens
StoreTokens(store, user_id, tokens) ==
    [k \in DOMAIN store \cup {user_id} |-> IF k = user_id THEN tokens ELSE store[k]]

\* RedirectResponse(url=f"{frontend_url}?auth=success&user_id={user_id}")
SuccessRedirect(user_id) ==
    [status |-> 307,
     location |-> [base |-> FrontendUrl, auth |-> "success", user_id |-> PyStr(user_id)]]

\* the decimal text of a status code
StatusStr(status) ==
    CASE status = 400 -> "400"
      [] status = 401 -> "401"
      [] status = 500 -> "500"
      [] OTHER -> "0"

\* str(e): an HTTPException prints as "<status_code>: <detail>", the other
\* exceptions as their message
ExcStr(e) ==
    IF e.exc = "HTTPException" THEN <<StatusStr(e.status), ": ">> \o e.msg ELSE e.msg

\* a plausible slip: an except clause that lets HTTPException through
CallbackExceptNarrow(e) ==
    IF e.exc = "HTTPException"
    THEN [status |-> e.status, detail |-> e.msg]
    ELSE [status |-> 307,
          location |-> [base |-> FrontendUrl, auth |-> "error", message |-> ExcStr(e)]]

\* except Exception as e: RedirectResponse(url=f"{frontend_url}?auth=error&message={str(e)}")
CallbackExcept(e) ==
    [status |-> 307,
     location |-> [base |-> FrontendUrl, auth |-> "error", message |-> ExcStr(e)]]

\* the whole handler on the store and the two upstream answers
GoogleCallback(store, tok, info) ==
    LET ex == CallbackExchange(tok) IN
    IF ex.kind = "raise"
    THEN [store |-> store, stored |-> FALSE, user_id |-> None, resp |-> CallbackExcept(ex)]
    ELSE LET ui == CallbackUserinfo(info) IN
         IF ui.kind = "raise"
         THEN [store |-> store, stored |-> FALSE, user_id |-> None, resp |-> CallbackExcept(ui)]
         ELSE [store |-> StoreTokens(store, ui.user_id, tok.d), stored |-> TRUE,
               user_id |-> ui.user_id, resp |-> SuccessRedirect(ui.user_id)]

\* one callback request, handled start to end (the handler never awaits)
CompleteAuth ==
    \E tok \in TokenResponses, info \in UserinfoResponses :
        LET r == GoogleCallback(user_tokens, tok, info) IN
        /\ user_tokens' = r.store
        /\ returned' = IF r.stored THEN returned \cup {r.resp.location.user_id} ELSE returned
        /\ last' = [op |-> "callback", tokens |-> tok, stored |-> r.stored,
                    user_id |-> r.user_id,
                    before |-> IF r.stored /\ r.user_id \in DOMAIN user_tokens
                               THEN user_tokens[r.user_id] ELSE EmptyDict,
                    resp |-> r.resp]
        /\ UNCHANGED <<message, pc, req>>

----------------------------------------------------------------------------
(* GET /auth/status                                                        *)

\* a plausible slip: connected as soon as anyone is
AuthStatusAnyone(store, user_id) ==
    IF DOMAIN store # {}
    THEN [connected |-> TRUE, services |-> <<"gmail", "calendar", "drive">>]
    ELSE [connected |-> FALSE, services |-> <<>>]

\* the handler's result; user_id is the query string
AuthStatusResult(store, user_id) ==
    IF Str(user_id) \in DOMAIN store
    THEN [connected |-> TRUE, services |-> <<"gmail", "calendar", "drive">>]
    ELSE [connected |-> FALSE, services |-> <<>>]

AuthStatus ==
    \E u \in QueryIds :
        /\ last' = [op |-> "authStatus", user_id |-> u, status |-> 200,
                    resp |-> AuthStatusResult(user_tokens, u)]
        /\ UNCHANGED <<user_tokens, returned, message, pc, req>>

----------------------------------------------------------------------------
(* GET /google/gmail                                                       *)

\* the fixed cap of the detail loop, messages[:5]
DetailCap == 5

\* the largest limit a client sends, and so the most ids the list call returns
MaxLimit == 7

Min(a, b) == IF a < b THEN a ELSE b

\* a plausible slip: the loop runs over every listed message
AllMessages(messages) == messages

\* messages[:5]
FirstMessages(messages) == SubSeq(messages, 1, Min(Len(messages), DetailCap))

\* results.get('messages', [])
ResultMessages(results) ==
    IF "messages" \in DOMAIN results THEN results["messages"] ELSE <<>>

\* next((h['value'] for h in headers if h['name'] == name), default), from
\* header i on: the headers are read in order up to the first one of that name
RECURSIVE FirstHeader(_, _, _, _)
FirstHeader(headers, i, name, default) ==
    IF i > Len(headers) THEN [kind |-> "ok", value |-> default]
    ELSE IF "name" \notin DOMAIN headers[i] THEN Raise("KeyError", 0, <<"'name'">>)
    ELSE IF headers[i]["name"] # name THEN FirstHeader(headers, i + 1, name, default)
    ELSE IF "value" \notin DOMAIN headers[i] THEN Raise("KeyError", 0, <<"'value'">>)
    ELSE [kind |-> "ok", value |-> headers[i]["value"]]

\* message['payload'].get('headers', [])
PayloadHeaders(payload) ==
    IF "headers" \in DOMAIN payload THEN payload["headers"] ELSE <<>>

\* message.get('snippet', '')
Snippet(detail) == IF "snippet" \in DOMAIN detail THEN detail["snippet"] ELSE ""

\* an exception that leaves the detail loop, with the calls issued so far
LoopRaise(e, calls) ==
    [kind |-> "raise", exc |-> e.exc, status |-> e.status, msg |-> e.msg, calls |-> calls]

\* the detail loop from position i on.  Each turn reads msg['id'], issues the
\* get call, reads the payload's headers and appends one summary; an exception
\* of any of these leaves the loop.
RECURSIVE FetchDetails(_, _, _, _, _)
FetchDetails(msgs, i, up, calls, email_list) ==
    IF i > Len(msgs)
    THEN [kind |-> "ok", calls |-> calls, emails |-> email_list]
    ELSE IF "id" \notin DOMAIN msgs[i]
    THEN LoopRaise(Raise("KeyError", 0, <<"'id'">>), calls)
    ELSE
    LET id == msgs[i]["id"]
        issued == Append(calls, [api |-> "get", id |-> id])
        answer == up.details[id]
    IN
    IF answer.kind = "raise"
    THEN LoopRaise(Raise("HttpError", 0, <<"get failed">>), issued)
    ELSE IF "payload" \notin DOMAIN answer.d
    THEN LoopRaise(Raise("KeyError", 0, <<"'payload'">>), issued)
    ELSE
    LET headers == PayloadHeaders(answer.d["payload"])
        subject == FirstHeader(headers, 1, "Subject", "No Subject")
        sender == FirstHeader(headers, 1, "From", "Unknown Sender")
    IN
    IF subject.kind = "raise" THEN LoopRaise(subject, issued)
    ELSE IF sender.kind = "raise" THEN LoopRaise(sender, issued)
    ELSE FetchDetails(msgs, i + 1, up, issued,
                      Append(email_list,
                             [id |-> id, subject |-> subject.value,
                              sender |-> sender.value, snippet |-> Snippet(answer.d)]))

\* a plausible slip: the list call is issued before the user is looked up
GmailBodyCheckLate(store, user_id, limit, up) ==
    LET known == Str(user_id) \in DOMAIN store
        listCall == <<[api |-> "list",
                       token |-> IF known THEN store[Str(user_id)]["access_token"] ELSE "",
                       maxResults |-> limit]>> IN
    IF up.list.kind = "raise"
    THEN LoopRaise(Raise("HttpError", 0, <<"list failed">>), listCall)
    ELSE IF ~known
    THEN LoopRaise(Raise("HTTPException", 401, <<"User not authenticated">>), listCall)
    ELSE FetchDetails(FirstMessages(ResultMessages(up.list.d)), 1, up, listCall, <<>>)

\* the body of the try block
GmailBody(store, user_id, limit, up) ==
    IF Str(user_id) \notin DOMAIN store
    THEN LoopRaise(Raise("HTTPException", 401, <<"User not authenticated">>), <<>>)
    ELSE LET listCall == <<[api |-> "list", token |-> store[Str(user_id)]["access_token"],
                            maxResults |-> limit]>> IN
         IF up.list.kind = "raise"
         THEN LoopRaise(Raise("HttpError", 0, <<"list failed">>), listCall)
         ELSE FetchDetails(FirstMessages(ResultMessages(up.list.d)), 1, up, listCall, <<>>)

\* except Exception as e: raise HTTPException(status_code=500, ...)
GmailExcept(e) == [status |-> 500, detail |-> <<"Gmail access failed: ">> \o ExcStr(e)]

\* the handler: its response and the downstream calls it issued
GetGmailMessages(store, user_id, limit, up) ==
    LET b == GmailBody(store, user_id, limit, up) IN
    IF b.kind = "raise"
    THEN [resp |-> GmailExcept(b), calls |-> b.calls]
    ELSE [resp |-> [status |-> 200, emails |-> b.emails], calls |-> b.calls]

\* the limits a client sends: below and above the cap of the detail loop
Limits == {2, MaxLimit}

\* answers of the get call: a message with both headers and a snippet, and one
\* without headers and snippet
FullDetail ==
    JDict([payload |-> [headers |-> << [name |-> "From", value |-> "a@example.com"],
                                       [name |-> "Subject", value |-> "Hi"] >>],
           snippet |-> "Hi there"])

BareDetail == JDict([payload |-> [mimeType |-> "text/plain"]])

\* answers of the get call that end the loop: the call raises, or its body has
\* no payload, a header without name, or a Subject header without value
BadDetails ==
    { Failed,
      JDict([snippet |-> "Hi there"]),
      JDict([payload |-> [headers |-> << [value |-> "Hi"] >>]]),
      JDict([payload |-> [headers |-> << [name |-> "From", value |-> "a@example.com"],
                                         [name |-> "Subject"] >>]]) }

\* the message at position i of a list answer of n messages, newest first
ListedMessage(n, i) == [id |-> n + 1 - i, threadId |-> n + 1 - i]

\* the get answers of a list of n messages when all are well formed
GoodDetails(n) == [id \in 1..n |-> IF id % 2 = 1 THEN FullDetail ELSE BareDetail]

\* what the Gmail API may answer to a call with maxResults = limit: the list call
\* raises; its body has no messages key; or it lists n <= limit messages, all
\* well formed, or with one among those the loop reaches that is listed without
\* id or whose get answer ends the loop
GmailAnswers(limit) ==
    { [list |-> Failed, details |-> GoodDetails(0)],
      [list |-> JDict([resultSizeEstimate |-> 0]), details |-> GoodDetails(0)] }
    \cup { [list |-> JDict([messages |-> [i \in 1..n |-> ListedMessage(n, i)]]),
            details |-> GoodDetails(n)] : n \in 0..limit }
    \cup UNION { UNION {
            { [list |-> JDict([messages |->
                         [i \in 1..n |-> IF i = f THEN [threadId |-> n + 1 - i]
                                         ELSE ListedMessage(n, i)]]),
               details |-> GoodDetails(n)] }
            \cup { [list |-> JDict([messages |-> [i \in 1..n |-> ListedMessage(n, i)]]),
                    details |-> [id \in 1..n |-> IF id = n + 1 - f THEN bad
                                                 ELSE GoodDetails(n)[id]]] :
                   bad \in BadDetails } :
            f \in 1..Min(n, DetailCap) } : n \in 1..limit }

\* the API is not called for a user without tokens
NotCalled == [list |-> Failed, details |-> GoodDetails(0)]

ListGmail ==
    \E u \in QueryIds, limit \in Limits :
    \E up \in IF Str(u) \in DOMAIN user_tokens THEN GmailAnswers(limit) ELSE {NotCalled} :
        LET r == GetGmailMessages(user_tokens, u, limit, up) IN
        /\ last' = [op |-> "listGmail", user_id |-> u, limit |-> limit, up |-> up,
                    calls |-> r.calls, resp |-> r.resp]
        /\ UNCHANGED <<user_tokens, returned, message, pc, req>>

----------------------------------------------------------------------------
(* POST /chat.  A message text is a sequence of characters.                *)

UpperCase == <<"A", "B", "C", "D", "E", "F", "G", "H", "I", "J", "K", "L", "M", "N", "O", "P", "Q", "R", "S", "T", "U", "V", "W", "X", "Y", "Z">>

LowerCase == <<"a", "b", "c", "d", "e", "f", "g", "h", "i", "j", "k", "l", "m", "n", "o", "p", "q", "r", "s", "t", "u", "v", "w", "x", "y", "z">>

\* one character of str.lower()
LowerChar(c) ==
    IF \E i \in 1..Len(UpperCase) : UpperCase[i] = c
    THEN LowerCase[CHOOSE i \in 1..Len(UpperCase) : UpperCase[i] = c]
    ELSE c

\* message.message.lower()
Lower(text) == [i \in 1..Len(text) |-> LowerChar(text[i])]

\* word in text, Python's substring test
Contains(text, word) ==
    \E i \in 1..(Len(text) + 1) :
        /\ i + Len(word) - 1 <= Len(text)
        /\ SubSeq(text, i, i + Len(word) - 1) = word

GmailWords == <<<<"e", "m", "a", "i", "l">>, <<"m", "a", "i", "l">>, <<"g", "m", "a", "i", "l">>>>

CalendarWords == <<<<"c", "a", "l", "e", "n", "d", "a", "r">>,
                   <<"s", "c", "h", "e", "d", "u", "l", "e">>,
                   <<"m", "e", "e", "t", "i", "n", "g">>>>

DriveWords == <<<<"d", "r", "i", "v", "e">>,
                <<"f", "i", "l", "e">>,
                <<"d", "o", "c", "u", "m", "e", "n", "t">>>>

\* any(word in text for word in words)
AnyWordIn(text, words) == \E k \in 1..Len(words) : Contains(text, words[k])

\* a plausible slip: the keywords are matched against the text as typed
DetectIntentCaseSensitive(text) ==
    IF AnyWordIn(text, GmailWords) THEN Str("gmail")
    ELSE IF AnyWordIn(text, CalendarWords) THEN Str("calendar")
    ELSE IF AnyWordIn(text, DriveWords) THEN Str("drive")
    ELSE None

\* the if / elif chain of the intent detection
DetectIntent(text) ==
    IF AnyWordIn(Lower(text), GmailWords) THEN Str("gmail")
    ELSE IF AnyWordIn(Lower(text), CalendarWords) THEN Str("calendar")
    ELSE IF AnyWordIn(Lower(text), DriveWords) THEN Str("drive")
    ELSE None

\* the answers of the completion API: a completion, a 200 body without
\* choices, a non-200 status, and a request that raised
CompletionAnswers ==
    { [kind |-> "response", status |-> 200, choices |-> <<"Sure.">>, text |-> "{...}"],
      [kind |-> "response", status |-> 200, choices |-> <<>>, text |-> "{...}"],
      [kind |-> "response", status |-> 429, choices |-> <<>>, text |-> "rate limited"],
      [kind |-> "response", status |-> 429, choices |-> <<>>, text |-> ""],
      [kind |-> "raise", status |-> 0, choices |-> <<>>, text |-> ""] }

\* the body of the try block
ChatBody(text, up) ==
    IF up.kind = "raise" THEN Raise("RequestException", 0, <<"request failed">>)
    ELSE IF up.status # 200 THEN Raise("HTTPException", 500, <<"Cerebras API error: ", up.text>>)
    ELSE IF Len(up.choices) = 0 THEN Raise("IndexError", 0, <<"list index out of range">>)
    ELSE [kind |-> "ok", response |-> up.choices[1], intent |-> DetectIntent(text)]

\* except Exception as e: raise HTTPException(status_code=500, ...)
ChatExcept(e) == [status |-> 500, detail |-> <<"Chat processing failed: ">> \o ExcStr(e)]

\* the handler's response
ChatHandler(text, up) ==
    LET b == ChatBody(text, up) IN
    IF b.kind = "raise"
    THEN ChatExcept(b)
    ELSE [status |-> 200, response |-> b.response, intent |-> b.intent, data |-> None]

Chat ==
    \E up \in CompletionAnswers :
        /\ last' = [op |-> "chat", text |-> message, up |-> up,
                    resp |-> ChatHandler(message, up)]
        /\ UNCHANGED <<user_tokens, returned, message, pc, req>>

\* the message texts of the chat runs: up to MaxWords pieces, one after the other
MaxWords == 2

Pieces ==
    { <<"e">>,
      <<"m", "a", "i", "l">>,
      <<"M", "A", "I", "L">>,
      <<"c", "a", "l", "e", "n", "d", "a", "r">>,
      <<"S", "c", "h", "e", "d">>,
      <<"u", "l", "e">>,
      <<"m", "e", "e", "t", "i", "n", "g">>,
      <<"D", "r", "i", "v", "e">>,
      <<"f", "i", "l", "e">>,
      <<"d", "o", "c", "u", "m", "e", "n", "t">>,
      <<"h", "e", "l", "l", "o">>,
      <<" ">>,
      <<"m", "a", "i">>,
      <<"l">> }

RECURSIVE Texts(_)
Texts(k) ==
    IF k = 0 THEN { <<>> }
    ELSE Texts(k - 1) \cup { t \o w : t \in Texts(k - 1), w \in Pieces }

----------------------------------------------------------------------------
(* Two callback requests in flight at once, each advancing from one        *)
(* upstream answer to the next.                                            *)

Reqs == {"r1", "r2"}

NoLocals == [tokens |-> EmptyDict, user_id |-> None, resp |-> [status |-> 0]]

\* lines up to the access_token check
Exchange(r) ==
    /\ pc[r] = "idle"
    /\ \E tok \in TokenResponses :
        LET ex == CallbackExchange(tok) IN
        IF ex.kind = "raise"
        THEN /\ pc' = [pc EXCEPT ![r] = "done"]
             /\ req' = [req EXCEPT ![r] = [NoLocals EXCEPT !.resp = CallbackExcept(ex)]]
        ELSE /\ pc' = [pc EXCEPT ![r] = "userinfo"]
             /\ req' = [req EXCEPT ![r] = [NoLocals EXCEPT !.tokens = tok.d]]
    /\ UNCHANGED <<user_tokens, returned, last, message>>

\* the userinfo answer, the store write and the redirect
Finish(r) ==
    /\ pc[r] = "userinfo"
    /\ \E info \in UserinfoResponses :
        LET ui == CallbackUserinfo(info) IN
        IF ui.kind = "raise"
        THEN /\ req' = [req EXCEPT ![r].resp = CallbackExcept(ui)]
             /\ UNCHANGED <<user_tokens, returned>>
        ELSE /\ user_tokens' = StoreTokens(user_tokens, ui.user_id, req[r].tokens)
             /\ returned' = returned \cup {PyStr(ui.user_id)}
             /\ req' = [req EXCEPT ![r].user_id = ui.user_id,
                                   ![r].resp = SuccessRedirect(ui.user_id)]
    /\ pc' = [pc EXCEPT ![r] = "done"]
    /\ UNCHANGED <<last, message>>

\* both responses are sent; the next two requests may come
Retire ==
    /\ \A r \in Reqs : pc[r] = "done"
    /\ pc' = [r \in Reqs |-> "idle"]
    /\ req' = [r \in Reqs |-> NoLocals]
    /\ UNCHANGED <<user_tokens, returned, last, message>>

----------------------------------------------------------------------------

Init ==
    /\ user_tokens = EmptyDict
    /\ returned = {}
    /\ last = NoRequest
    /\ message = <<>>
    /\ pc = [r \in Reqs |-> "idle"]
    /\ req = [r \in Reqs |-> NoLocals]

\* requests handled one at a time
Next ==
    \/ CompleteAuth
    \/ AuthStatus
    \/ ListGmail
    \/ Chat

Spec == Init /\ [][Next]_vars

\* two callback requests interleaved
NextConc ==
    \/ \E r \in Reqs : Exchange(r)
    \/ \E r \in Reqs : Finish(r)
    \/ Retire

SpecConc == Init /\ [][NextConc]_vars

\* the chat relay on each message text
InitChat ==
    /\ user_tokens = EmptyDict
    /\ returned = {}
    /\ last = NoRequest
    /\ message \in Texts(MaxWords)
    /\ pc = [r \in Reqs |-> "idle"]
    /\ req = [r \in Reqs |-> NoLocals]

NextChat == Chat

SpecChat == InitChat /\ [][NextChat]_vars

----------------------------------------------------------------------------
(* Properties                                                              *)

\* the ids of the get calls among the downstream calls, in the order issued
GetIds(calls) ==
    LET gets == SelectSeq(calls, LAMBDA c : c.api = "get") IN
    [i \in 1..Len(gets) |-> gets[i].id]

\* C1: after a callback redirected with auth=success&user_id=<id>, authStatus
\* called with that id string answers connected = true.
C1_StatusAfterSuccess ==
    (last.op = "authStatus" /\ last.user_id \in returned) => last.resp.connected

\* C2: listGmail for a user id without an entry in the store answers 401.
C2_Unauthenticated401 ==
    (last.op = "listGmail" /\ Str(last.user_id) \notin DOMAIN user_tokens)
        => last.resp.status = 401

\* C3: a callback whose token answer carries no access_token ends in a redirect
\* to the frontend URL with auth=error, never in an error status.
C3_MissingTokenRedirectsError ==
    (/\ last.op = "callback"
     /\ ~(last.tokens.kind = "dict" /\ "access_token" \in DOMAIN last.tokens.d))
        => /\ last.resp.status = 307
           /\ last.resp.location.base = FrontendUrl
           /\ last.resp.location.auth = "error"

C3_Witness ==
    /\ last.op = "callback"
    /\ last.tokens = JDict([error |-> "invalid_grant"])
    /\ last.resp.status = 307
    /\ last.resp.location.auth = "error"

\* C4: the store holds a bundle under a user id exactly when a callback
\* succeeded for that id, and every key of the store is such a user id.
C4_StoreIffCompleted ==
    /\ \A u \in QueryIds : (Str(u) \in DOMAIN user_tokens) <=> (u \in returned)
    /\ \A k \in DOMAIN user_tokens : k.t = "str" /\ k.v \in returned

\* C5: when the completion succeeds, the intent is gmail if the lower-cased
\* message contains email, mail or gmail; else calendar if it contains calendar,
\* schedule or meeting; else drive if it contains drive, file or document; else
\* absent.
C5_IntentByKeyword ==
    (/\ last.op = "chat"
     /\ last.up.kind = "response" /\ last.up.status = 200 /\ Len(last.up.choices) > 0)
        => LET t == Lower(last.text)
               has(ws) == \E w \in ws : Contains(t, w)
               gmail == has({<<"e", "m", "a", "i", "l">>, <<"m", "a", "i", "l">>, <<"g", "m", "a", "i", "l">>})
               calendar == has({<<"c", "a", "l", "e", "n", "d", "a", "r">>,
                                 <<"s", "c", "h", "e", "d", "u", "l", "e">>,
                                 <<"m", "e", "e", "t", "i", "n", "g">>})
               drive == has({<<"d", "r", "i", "v", "e">>,
                              <<"f", "i", "l", "e">>,
                              <<"d", "o", "c", "u", "m", "e", "n", "t">>})
           IN /\ last.resp.status = 200
              /\ gmail => last.resp.intent = Str("gmail")
              /\ (~gmail /\ calendar) => last.resp.intent = Str("calendar")
              /\ (~gmail /\ ~calendar /\ drive) => last.resp.intent = Str("drive")
              /\ (~gmail /\ ~calendar /\ ~drive) => last.resp.intent = None

\* an upper-case text matching the gmail and the calendar words is tagged gmail
C5_Witness ==
    /\ last.op = "chat"
    /\ last.resp.status = 200
    /\ last.text = <<"M", "A", "I", "L", "m", "e", "e", "t", "i", "n", "g">>
    /\ last.resp.intent = Str("gmail")

\* the messages of the list answer of the last listGmail call
Listed == IF last.up.list.kind = "dict" /\ "messages" \in DOMAIN last.up.list.d
          THEN last.up.list.d["messages"] ELSE <<>>

\* a get answer that is a message with a payload whose headers each carry a
\* name and a value
WellFormedDetail(answer) ==
    /\ answer.kind = "dict"
    /\ "payload" \in DOMAIN answer.d
    /\ "headers" \in DOMAIN answer.d["payload"] =>
          \A j \in 1..Len(answer.d["payload"]["headers"]) :
              {"name", "value"} \subseteq DOMAIN answer.d["payload"]["headers"][j]

C7_NoCallUnauthenticated ==
    (last.op = "listGmail" /\ Str(last.user_id) \notin DOMAIN user_tokens)
        => last.calls = <<>>

C7_Witness ==
    /\ last.op = "listGmail"
    /\ Str(last.user_id) \notin DOMAIN user_tokens
    /\ DOMAIN user_tokens # {}
    /\ last.resp.status >= 400
    /\ last.calls = <<>>

\* C8: authStatus leaves the store as it is and answers connected with the three
\* services exactly when the id is in the store; two calls in a row for the
\* same id answer the same.
C8_AuthStatusPure ==
    [][last'.op = "authStatus" =>
        /\ user_tokens' = user_tokens
        /\ last'.resp = IF Str(last'.user_id) \in DOMAIN user_tokens
                        THEN [connected |-> TRUE,
                              services |-> <<"gmail", "calendar", "drive">>]
                        ELSE [connected |-> FALSE, services |-> <<>>]
        /\ (last.op = "authStatus" /\ last.user_id = last'.user_id)
              => last'.resp = last.resp]_vars

C8_Witness ==
    /\ last.op = "authStatus"
    /\ last.resp.connected
    /\ Str(last.user_id) \in DOMAIN user_tokens
    /\ Cardinality(DOMAIN user_tokens) = 1

\* C9: a callback that succeeds for an id already in the store leaves exactly
\* the new token answer under that id, and every other entry as it was.
C9_Overwrite ==
    [][(/\ last'.op = "callback"
        /\ last'.stored
        /\ last'.user_id \in DOMAIN user_tokens)
        => /\ user_tokens'[last'.user_id] = last'.tokens.d
           /\ DOMAIN user_tokens' = DOMAIN user_tokens
           /\ \A k \in DOMAIN user_tokens \ {last'.user_id} :
                 user_tokens'[k] = user_tokens[k]]_vars

\* the earlier bundle had a refresh_token, the new one has none, another stays
C9_Witness ==
    /\ last.op = "callback"
    /\ last.stored
    /\ "refresh_token" \in DOMAIN last.before
    /\ "refresh_token" \notin DOMAIN user_tokens[last.user_id]
    /\ Cardinality(DOMAIN user_tokens) > 1

BothSucceeded ==
    \A r \in Reqs : /\ pc[r] = "done"
                    /\ req[r].resp.status = 307
                    /\ req[r].resp.location.auth = "success"

\* C10: once two interleaved successful callbacks have finished, distinct ids
\* each hold their own request's bundle, and one common id holds the whole
\* bundle of one of the two.
C10_ConcurrentCallbacks ==
    BothSucceeded =>
        \A r \in Reqs :
            /\ req[r].user_id \in DOMAIN user_tokens
            /\ \E q \in Reqs : /\ req[q].user_id = req[r].user_id
                               /\ user_tokens[req[r].user_id] = req[q].tokens

\* two finished callbacks for one id with different bundles
C10_Witness ==
    /\ BothSucceeded
    /\ req["r1"].user_id = req["r2"].user_id
    /\ req["r1"].tokens # req["r2"].tokens

====
